---- MODULE Spec2Model ----
(***************************************************************************)
(* Flatpak sources of the installer payload                                *)
(* (pyanaconda/modules/payloads/payload/flatpak/source.py):                *)
(* reference canonicalization, dependency expansion, the static (OCI       *)
(* layout) source and the registry source, with their size accounting,     *)
(* catalog load and download.                                              *)
(*                                                                         *)
(* Strings are sequences of tokens: the separators "/" and ":" are tokens  *)
(* of their own, every other token is a separator-free piece of text.      *)
(* Exceptions are values: an operation that raises yields the name of the  *)
(* exception class in a field "raised" (None when it returns).             *)
(***************************************************************************)
EXTENDS Integers, Sequences, FiniteSets, TLC

\* Python's None, where a name of an exception class or a string is expected
None == "None"
\* Python's None, where a string (a sequence of tokens) is expected
NoneStr == <<"None">>

(***************************************************************************)
(* Bounds of the model.                                                    *)
(***************************************************************************)
\* longest reference string (in tokens) given to the canonicalizer on its own
MaxRefLen == 6
\* most entries in the index document of an origin
MaxImages == 2
\* most references in one request
MaxRefs == 2

(***************************************************************************)
(* str.split, str.join                                                     *)
(***************************************************************************)
HasSep(s, sep) == \E i \in 1..Len(s) : s[i] = sep

FirstSep(s, sep) == CHOOSE i \in 1..Len(s) : s[i] = sep /\ \A j \in 1..(i - 1) : s[j] # sep

\* s.split(sep): always at least one part
RECURSIVE split(_, _)
split(s, sep) ==
    IF ~HasSep(s, sep) THEN <<s>>
    ELSE LET k == FirstSep(s, sep)
         IN <<SubSeq(s, 1, k - 1)>> \o split(SubSeq(s, k + 1, Len(s)), sep)

\* s.split(sep, 1): at most two parts
split1(s, sep) ==
    IF ~HasSep(s, sep) THEN <<s>>
    ELSE LET k == FirstSep(s, sep)
         IN <<SubSeq(s, 1, k - 1), SubSeq(s, k + 1, Len(s))>>

\* sep.join(parts)
RECURSIVE join(_, _)
join(parts, sep) ==
    IF Len(parts) = 0 THEN <<>>
    ELSE IF Len(parts) = 1 THEN parts[1]
    ELSE parts[1] \o <<sep>> \o join(Tail(parts), sep)

(***************************************************************************)
(* Architecture names                                                      *)
(***************************************************************************)
\* blivet.arch.get_arch() of the machine the installer runs on
get_arch == <<"x86_64">>

_CONTAINER_ARCH_MAP == [a \in {"x86_64", "aarch64"} |-> IF a = "x86_64" THEN "amd64" ELSE "arm64"]

_get_container_arch ==
    LET arch == get_arch[1]
    IN IF arch \in DOMAIN _CONTAINER_ARCH_MAP THEN _CONTAINER_ARCH_MAP[arch] ELSE arch

(***************************************************************************)
(* _canonicalize_flatpak_ref                                               *)
(***************************************************************************)
\* a bug the code could have: the architecture is inserted before the empty segment
Mutant_canonicalize_inserts_arch(ref) ==
    LET collection_parts == split1(ref, ":")
        collection == IF Len(collection_parts) = 2 THEN collection_parts[1] ELSE NoneStr
        rest == IF Len(collection_parts) = 2 THEN collection_parts[2] ELSE ref
        parts == split(rest, "/")
    IN IF Len(parts) # 4
       THEN [raised |-> "RuntimeError", collection |-> collection, path |-> <<>>]
       ELSE [raised |-> None, collection |-> collection,
             path |-> join(IF parts[3] = <<>>
                           THEN <<parts[1], parts[2], get_arch, parts[3], parts[4]>>
                           ELSE parts, "/")]

\* a bug the code could have: an empty architecture is left as it is
Mutant_canonicalize_keeps_empty_arch(ref) ==
    LET collection_parts == split1(ref, ":")
        collection == IF Len(collection_parts) = 2 THEN collection_parts[1] ELSE NoneStr
        rest == IF Len(collection_parts) = 2 THEN collection_parts[2] ELSE ref
        parts == split(rest, "/")
    IN IF Len(parts) # 4
       THEN [raised |-> "RuntimeError", collection |-> collection, path |-> <<>>]
       ELSE [raised |-> None, collection |-> collection, path |-> join(parts, "/")]

_canonicalize_flatpak_ref(ref) ==
    LET collection_parts == split1(ref, ":")
        collection == IF Len(collection_parts) = 2 THEN collection_parts[1] ELSE NoneStr
        rest == IF Len(collection_parts) = 2 THEN collection_parts[2] ELSE ref
        parts == split(rest, "/")
    IN IF Len(parts) # 4
       THEN [raised |-> "RuntimeError", collection |-> collection, path |-> <<>>]
       ELSE [raised |-> None, collection |-> collection,
             path |-> join(IF parts[3] = <<>> THEN [parts EXCEPT ![3] = get_arch] ELSE parts, "/")]

(***************************************************************************)
(* configparser.ConfigParser(interpolation=None): read_string and get, as   *)
(* _expand_refs uses them.  A metadata document is a sequence of lines; a   *)
(* line is a section header "[name]", an option "key=value", or other text. *)
(***************************************************************************)
SectionLine(n) == [kind |-> "section", name |-> n, value |-> <<>>]
OptionLine(k, v) == [kind |-> "option", name |-> k, value |-> v]
TextLine == [kind |-> "text", name |-> "", value |-> <<>>]

\* labels.get("org.flatpak.metadata"): the label's document, or no such label
Label(doc) == [present |-> TRUE, doc |-> doc]
NoLabel == [present |-> FALSE, doc |-> <<>>]

\* ConfigParser.optionxform: option names are lower-cased
optionxform(k) == IF k = "Runtime" THEN "runtime" ELSE IF k = "Name" THEN "name" ELSE k

\* one line read in parser state p
read_line(p, line) ==
    IF p.raised # None THEN p
    ELSE IF line.kind = "section"
    THEN [p EXCEPT !.cursect = line.name, !.sections = @ \cup {line.name}]
    ELSE IF p.cursect = None
    THEN [p EXCEPT !.raised = "MissingSectionHeaderError"]
    ELSE IF line.kind = "text"
    THEN [p EXCEPT !.raised = "ParsingError"]
    ELSE [p EXCEPT !.options = {o \in @ : ~(o.section = p.cursect /\ o.key = optionxform(line.name))}
                               \cup {[section |-> p.cursect, key |-> optionxform(line.name),
                                      value |-> line.value]}]

\* the parser's state after the first n lines of doc
RECURSIVE read_lines(_, _)
read_lines(doc, n) ==
    IF n = 0 THEN [raised |-> None, cursect |-> None, options |-> {}, sections |-> {}]
    ELSE read_line(read_lines(doc, n - 1), doc[n])

read_string(doc) == read_lines(doc, Len(doc))

\* cp.get(section, option)
cp_get(cp, section, option) ==
    IF section \notin cp.sections
    THEN [raised |-> "NoSectionError", value |-> <<>>]
    ELSE IF ~\E o \in cp.options : o.section = section /\ o.key = optionxform(option)
    THEN [raised |-> "NoOptionError", value |-> <<>>]
    ELSE [raised |-> None,
          value |-> (CHOOSE o \in cp.options : o.section = section /\ o.key = optionxform(option)).value]

(***************************************************************************)
(* The images an origin may hold.                                          *)
(***************************************************************************)
ManifestType == "application/vnd.oci.image.manifest.v1+json"
IndexType == "application/vnd.oci.image.index.v1+json"

FooRef == <<"app", "/", "org.example.Foo", "/", "x86_64", "/", "stable">>
BarRef == <<"app", "/", "org.example.Bar", "/", "x86_64", "/", "stable">>
LayeredRef == <<"runtime", "/", "org.example.Layered", "/", "x86_64", "/", "1.0">>
PlatformRef == <<"runtime", "/", "org.example.Platform", "/", "x86_64", "/", "1.0">>

\* the value of a Runtime key: the runtime's reference without its kind
RuntimeValue(ref) == SubSeq(ref, 3, Len(ref))

Image(n, mt, arch, ref, dl, inst, meta, layers) ==
    [name |-> n, mediaType |-> mt, Architecture |-> arch,
     digest |-> "sha256:manifest-" \o n, manifest_len |-> 3,
     config_digest |-> "sha256:config-" \o n, config_len |-> 2,
     layers |-> layers,
     ref |-> ref, download_size_label |-> dl, installed_size_label |-> inst,
     metadata |-> meta]

Layer(d, sz) == [digest |-> "sha256:layer-" \o d, size |-> sz]

\* an application that names its runtime (the layer sizes differ from the label)
FooImage ==
    Image("foo", ManifestType, "amd64", FooRef, 10, 50,
          Label(<<SectionLine("Application"), OptionLine("Name", <<"org.example.Foo">>),
                  OptionLine("Runtime", RuntimeValue(LayeredRef))>>),
          <<Layer("foo1", 4), Layer("foo2", 5)>>)

\* a runtime image whose metadata has an Application section naming a further runtime
LayeredImage ==
    Image("layered", ManifestType, "amd64", LayeredRef, 7, 20,
          Label(<<SectionLine("Runtime"), OptionLine("Name", <<"org.example.Layered">>),
                  SectionLine("Application"), OptionLine("Runtime", RuntimeValue(PlatformRef))>>),
          <<Layer("layered1", 8)>>)

\* a runtime image: its metadata has no Application section
PlatformImage ==
    Image("platform", ManifestType, "amd64", PlatformRef, 12, 30,
          Label(<<SectionLine("Runtime"), OptionLine("Name", <<"org.example.Platform">>)>>),
          <<Layer("platform1", 6), Layer("platform2", 6)>>)

\* an entry a source passes over: an image index for another architecture
OtherArchImage ==
    Image("foo-arm64", IndexType, "arm64", FooRef, 11, 60, NoLabel,
          <<Layer("arm1", 9)>>)

\* the metadata label of the image of org.example.Bar, one per case
BarMetadata ==
    [absent |-> NoLabel,
     empty |-> Label(<<>>),
     unparsable |-> Label(<<TextLine, SectionLine("Application")>>),
     nooption |-> Label(<<SectionLine("Application"), OptionLine("Name", <<"org.example.Bar">>)>>),
     novalue |-> Label(<<SectionLine("Application"), OptionLine("Runtime", <<>>)>>),
     noarch |-> Label(<<SectionLine("Application"),
                        OptionLine("Runtime", <<"org.example.Platform", "/", "/", "1.0">>)>>),
     short |-> Label(<<SectionLine("Application"), OptionLine("Runtime", <<"org.example.Platform">>)>>)]

BarImage(c) ==
    Image("bar-" \o c, ManifestType, "amd64", BarRef, 2, 40, BarMetadata[c], <<Layer("bar-" \o c, 1)>>)

\* an image that is not a Flatpak: no org.flatpak.ref label
PlainImage ==
    Image("plain", ManifestType, "amd64", NoneStr, 0, 0, NoLabel, <<Layer("plain1", 2)>>)

\* an image whose configuration blob the origin stores with no bytes in it
EmptyConfigImage ==
    [Image("empty-config", ManifestType, "amd64", PlatformRef, 3, 5, NoLabel,
           <<Layer("empty-config1", 2)>>) EXCEPT !.config_len = 0]

RECURSIVE SeqsOfDistinct(_, _)
SeqsOfDistinct(S, n) ==
    IF n = 0 THEN {<<>>}
    ELSE {s \in SeqsOfDistinct(S, n - 1) \cup
                {Append(t, x) : t \in {u \in SeqsOfDistinct(S, n - 1) : Len(u) = n - 1}, x \in S} :
            \A i, j \in 1..Len(s) : i # j => s[i] # s[j]}

\* the index documents of the origins of a source: at most MaxImages distinct entries
SourceImages == {FooImage, LayeredImage, OtherArchImage, BarImage("absent"), EmptyConfigImage}
Indexes == SeqsOfDistinct(SourceImages, MaxImages)

\* the catalogs dependency expansion is checked on: every case of metadata,
\* at most one image of org.example.Bar
VariantImages == {BarImage(c) : c \in DOMAIN BarMetadata} \cup {PlainImage}
ExpandImages == {FooImage, LayeredImage, PlatformImage} \cup VariantImages
ExpandCatalogs ==
    {s \in SeqsOfDistinct(ExpandImages, MaxImages) :
        Cardinality({i \in 1..Len(s) : s[i] \in VariantImages}) <= 1}

(***************************************************************************)
(* SourceImage                                                             *)
(***************************************************************************)
\* SourceImage.download_size: the org.flatpak.download-size label
SourceImage_download_size(image) == image.download_size_label

\* SourceImage.installed_size: the org.flatpak.installed-size label
installed_size(image) == image.installed_size_label

RECURSIVE SumSizes(_)
SumSizes(layers) == IF layers = <<>> THEN 0 ELSE layers[1].size + SumSizes(Tail(layers))

\* a bug the code could have: the size the image's labels claim is used
Mutant_download_size_from_label(image) == image.download_size_label

\* StaticSourceImage.download_size: the manifest's layer sizes
StaticSourceImage_download_size(image) == SumSizes(image.layers)

(***************************************************************************)
(* FlatpakSource._expand_refs                                              *)
(***************************************************************************)
\* the first loop: every reference canonicalized, in order
canonicalize_next(acc, c) ==
    IF acc.raised # None THEN acc
    ELSE IF c.raised # None THEN [raised |-> c.raised, result |-> <<>>]
    ELSE [acc EXCEPT !.result = Append(@, c.path)]

RECURSIVE canonicalize_first(_, _)
canonicalize_first(refs, n) ==
    IF n = 0 THEN [raised |-> None, result |-> <<>>]
    ELSE canonicalize_next(canonicalize_first(refs, n - 1), _canonicalize_flatpak_ref(refs[n]))

canonicalize_all(refs) == canonicalize_first(refs, Len(refs))

InSeq(x, s) == \E i \in 1..Len(s) : s[i] = x

\* the try block of the second loop, given what cp.get('Application', 'Runtime') did;
\* "added" records which position of the catalog added which reference
expand_runtime(acc, runtime, n) ==
    LET runtime_ref == <<"runtime", "/">> \o runtime.value
    IN IF runtime.raised = "NoSectionError" THEN acc
       ELSE IF runtime.raised # None THEN [acc EXCEPT !.raised = runtime.raised]
       ELSE IF runtime.value = <<>> THEN acc
       ELSE IF InSeq(runtime_ref, acc.result) THEN acc
       ELSE [acc EXCEPT !.result = Append(@, runtime_ref),
                        !.added = Append(@, [by |-> n, ref |-> runtime_ref])]

\* the second loop's body after cp.read_string(metadata)
expand_parsed(acc, cp, n) ==
    IF cp.raised # None THEN [acc EXCEPT !.raised = cp.raised]
    ELSE expand_runtime(acc, cp_get(cp, "Application", "Runtime"), n)

\* the body of the second loop for the image at position n of the catalog
expand_image(acc, image, n) ==
    IF acc.raised # None THEN acc
    ELSE IF ~InSeq(image.ref, acc.result) THEN acc
    ELSE IF ~image.metadata.present THEN acc
    ELSE expand_parsed(acc, read_string(image.metadata.doc), n)

\* a bug the code could have: the loop is run again over what the first pass added
RECURSIVE Mutant_expand_pass(_, _, _)
Mutant_expand_pass(acc, images, n) ==
    IF n = 0 THEN acc
    ELSE expand_image(Mutant_expand_pass(acc, images, n - 1), images[n], n)

Mutant_expand_loop_two_passes(acc, images, n) ==
    Mutant_expand_pass(Mutant_expand_pass(acc, images, n), images, n)

\* the second loop over the first n images
RECURSIVE expand_loop(_, _, _)
expand_loop(acc, images, n) ==
    IF n = 0 THEN acc ELSE expand_image(expand_loop(acc, images, n - 1), images[n], n)

(***************************************************************************)
(* State.  The configuration of the source and the origin it reads are set *)
(* at construction; flatpak_refs are the references the payload module was *)
(* given; _images and _cached_blobs are the fields of the source           *)
(* object; call, events and staged describe the last call: what it was     *)
(* given and returned, what it did in order (sessions, retrievals,         *)
(* progress reports, files opened for writing) and the index document it   *)
(* wrote.  The canon_ variables belong to the canonicalizer checked alone. *)
(***************************************************************************)
VARIABLES kind, _url, index_status, index, flatpak_refs, _images, _cached_blobs,
          call, events, staged, canon_stage, canon_ref, canon_first, canon_second

vars == <<kind, _url, index_status, index, flatpak_refs, _images, _cached_blobs,
          call, events, staged, canon_stage, canon_ref, canon_first, canon_second>>

source_vars == <<kind, _url, index_status, index>>
canon_vars == <<canon_stage, canon_ref, canon_first, canon_second>>

\* urljoin(repository_config.url + "/", "Flatpaks"): the scheme, then the rest
LocalUrl == <<"file://", "/run/install/repo/Flatpaks">>
RemoteUrl == <<"https://", "example.com/os/Flatpaks">>
\* the url of a registry source: a transport prefix, the registry, a tag
RegistryUrl == <<"oci+", "https://", "registry.example.com", "#", "stable">>

download_location == <<"/var/tmp/flatpak-download">>

\* the statuses the origin may answer a request for its index with
IndexStatuses == {200, 403, 404, 500}
\* the status of a blob retrieval that fails
BlobFailStatus == 500

\* a bug the code could have: the scheme tested for is not "file://"
Mutant_is_local_tests_file_colon == _url[1] = "file:"

\* self._is_local = self._url.startswith("file://")
_is_local == _url[1] = "file://"

\* str.removeprefix
removeprefix(str, prefix) == IF Len(str) > 0 /\ str[1] = prefix THEN Tail(str) ELSE str

\* Response.raise_for_status raises HTTPError for a 4xx or 5xx status
raise_for_status(status) == status >= 400 /\ status < 600

AllImages == SourceImages \cup ExpandImages

\* the length of the blob the origin stores under a digest
BlobLen(digest) ==
    IF \E i \in AllImages : i.digest = digest
    THEN (CHOOSE i \in AllImages : i.digest = digest).manifest_len
    ELSE IF \E i \in AllImages : i.config_digest = digest
    THEN (CHOOSE i \in AllImages : i.config_digest = digest).config_len
    ELSE LET i == CHOOSE i \in AllImages : \E k \in 1..Len(i.layers) : i.layers[k].digest = digest
         IN (CHOOSE l \in {i.layers[k] : k \in 1..Len(i.layers)} : l.digest = digest).size

(***************************************************************************)
(* A call in progress: the fields of the source it may change, what it has *)
(* done so far, and the exception it is raising, if any.  failAt numbers   *)
(* the blob retrieval of this call that the origin answers with an error   *)
(* (0: none).                                                              *)
(***************************************************************************)
Ev(ev, arg, ref, status) == [ev |-> ev, arg |-> arg, ref |-> ref, status |-> status]

Machine(failAt) ==
    [images |-> _images, cache |-> _cached_blobs, events |-> <<>>, gets |-> 0,
     failAt |-> failAt, raised |-> None, ret |-> 0, result |-> <<>>, expanded |-> <<>>,
     added |-> <<>>, index_json |-> <<>>, progress |-> FALSE]

emit(m, e) == [m EXCEPT !.events = Append(@, e)]

raise(m, exc) == [m EXCEPT !.raised = exc]

\* requests_session() entered and left
session_open(m) == emit(m, Ev("session_open", "", <<>>, 0))
session_close(m) == emit(m, Ev("session_close", "", <<>>, 0))

\* downloader(self._blob_url(digest)): one retrieval, answered by the origin
downloader(m, digest, stream) ==
    LET n == m.gets + 1
        status == IF n = m.failAt THEN BlobFailStatus ELSE 200
    IN [emit(m, Ev(IF stream THEN "stream" ELSE "get", digest, <<>>, status))
            EXCEPT !.gets = n, !.ret = status]

(***************************************************************************)
(* FlatpakStaticSource._get_blob, _get_json, _download_blob                *)
(***************************************************************************)
Cached(cache, digest) == \E c \in cache : c.digest = digest
CachedLen(cache, digest) == (CHOOSE c \in cache : c.digest = digest).len

\* response.raise_for_status() of the retrieval r just made
checked(r) == IF raise_for_status(r.ret) THEN raise(r, "HTTPError") ELSE r

\* self._cached_blobs[digest] = result
store_blob(r, digest) ==
    IF r.raised # None THEN r
    ELSE [r EXCEPT !.cache = {c \in @ : c.digest # digest}
                             \cup {[digest |-> digest, len |-> BlobLen(digest)]},
                   !.ret = BlobLen(digest)]

\* a bug the code could have: the blob is retrieved although it is cached
Mutant_get_blob_no_cache(m, digest) ==
    store_blob(checked(downloader(m, digest, FALSE)), digest)

\* ret is the length of the bytes returned
_get_blob(m, digest) ==
    IF Cached(m.cache, digest) /\ CachedLen(m.cache, digest) # 0
    THEN [m EXCEPT !.ret = CachedLen(m.cache, digest)]
    ELSE store_blob(checked(downloader(m, digest, FALSE)), digest)

\* json.loads of the blob r returned: no document decodes from no bytes
json_loads(r) ==
    IF r.raised # None THEN r
    ELSE IF r.ret = 0 THEN raise(r, "JSONDecodeError")
    ELSE r

_get_json(m, digest) ==
    IF m.raised # None THEN m ELSE json_loads(_get_blob(m, digest))

\* the streamed branch, after the retrieval r: ret is the number of bytes written
write_chunks(r, digest) ==
    IF r.raised # None THEN r ELSE [r EXCEPT !.ret = BlobLen(digest)]

\* ret is the number of bytes written
_download_blob(m, digest, stream) ==
    IF m.raised # None THEN m
    ELSE IF stream
    THEN write_chunks(checked(downloader(emit(m, Ev("open_file", digest, <<>>, 0)),
                                         digest, TRUE)), digest)
    ELSE _get_blob(emit(m, Ev("open_file", digest, <<>>, 0)), digest)

(***************************************************************************)
(* FlatpakStaticSource._images, FlatpakRegistrySource._images              *)
(***************************************************************************)
\* result.append(StaticSourceImage(...)), given the two documents were read
append_image(m, manifest) ==
    IF m.raised # None THEN m ELSE [m EXCEPT !.result = Append(@, manifest)]

\* the body of the loop over the manifests of the index document
load_manifest(m, manifest) ==
    IF m.raised # None \/ manifest.mediaType # ManifestType THEN m
    ELSE append_image(_get_json(_get_json(m, manifest.digest), manifest.config_digest),
                      manifest)

\* the loop over the first n manifests of the index document
RECURSIVE Static_images_loop(_, _, _)
Static_images_loop(m, manifests, n) ==
    IF n = 0 THEN m
    ELSE load_manifest(Static_images_loop(m, manifests, n - 1), manifests[n])

\* a bug the code could have: every failure to read the index is "no source"
Mutant_index_response_any_error_no_source(m) ==
    IF index_status # 200 THEN raise(m, "NoSourceError")
    ELSE Static_images_loop(m, index, Len(index))

\* what follows the retrieval of index.json, inside the session
index_response(m) ==
    IF index_status = 404 THEN raise(m, "NoSourceError")
    ELSE IF raise_for_status(index_status) THEN raise(m, "HTTPError")
    ELSE Static_images_loop(m, index, Len(index))

Static_images(m) ==
    session_close(index_response(
        emit(session_open([m EXCEPT !.result = <<>>]),
             Ev("get", "index.json", <<>>, index_status))))

\* the tag of a registry url: its fragment, or "latest"
registry_tag == IF HasSep(_url, "#") THEN split1(_url, "#")[2] ELSE <<"latest">>

\* what follows the retrieval of the registry's index, after the session
registry_response(m) ==
    IF raise_for_status(index_status) THEN raise(m, "HTTPError")
    ELSE [m EXCEPT !.result =
             SelectSeq(index, LAMBDA image : image.Architecture = _get_container_arch)]

Registry_images(m) ==
    registry_response(session_close(
        emit(session_open(m),
             Ev("get", "index/static?architecture=" \o _get_container_arch, registry_tag,
                index_status))))

\* the cached property keeps the value its first access that succeeds computed
cache_images(r) ==
    IF r.raised # None THEN r
    ELSE [r EXCEPT !.images = [loaded |-> TRUE, list |-> r.result]]

\* self._images
get_images(m) ==
    IF m.raised # None \/ m.images.loaded THEN m
    ELSE IF kind = "static" THEN cache_images(Static_images(m))
    ELSE cache_images(Registry_images(m))

\* _expand_refs returns what the second loop built
expand_return(m, e) ==
    [m EXCEPT !.raised = e.raised, !.expanded = e.result, !.added = e.added]

\* the second loop of _expand_refs over the catalog that m holds
expand_images(m, result) ==
    IF m.raised # None THEN m
    ELSE expand_return(m, expand_loop([raised |-> None, result |-> result, added |-> <<>>],
                                      m.images.list, Len(m.images.list)))

\* _expand_refs after its first loop c
expand_canonical(m, c) ==
    IF c.raised # None THEN raise(m, c.raised)
    ELSE expand_images(get_images(m), c.result)

\* FlatpakSource._expand_refs(refs)
_expand_refs(m, refs) == expand_canonical(m, canonicalize_all(refs))

(***************************************************************************)
(* calculate_size                                                          *)
(***************************************************************************)
\* a bug the code could have: a local source's images count as downloads, too
Mutant_Static_size_ignores_local(acc, image, expanded) ==
    IF ~InSeq(image.ref, expanded) THEN acc
    ELSE [download_size |-> acc.download_size + StaticSourceImage_download_size(image),
          installed_size |-> acc.installed_size + installed_size(image)]

\* FlatpakStaticSource.calculate_size: the body of the loop
Static_size_image(acc, image, expanded) ==
    IF ~InSeq(image.ref, expanded) THEN acc
    ELSE [download_size |-> acc.download_size
                            + (IF _is_local THEN 0 ELSE StaticSourceImage_download_size(image)),
          installed_size |-> acc.installed_size + installed_size(image)]

RECURSIVE Static_size_loop(_, _, _)
Static_size_loop(images, expanded, n) ==
    IF n = 0 THEN [download_size |-> 0, installed_size |-> 0]
    ELSE Static_size_image(Static_size_loop(images, expanded, n - 1), images[n], expanded)

\* a bug the code could have: the downloads are summed
Mutant_Max_adds(a, b) == a + b

Max(a, b) == IF a >= b THEN a ELSE b

\* FlatpakRegistrySource.calculate_size: the body of the loop
Registry_size_image(acc, image, expanded) ==
    IF ~InSeq(image.ref, expanded) THEN acc
    ELSE [max_download_size |-> Max(acc.max_download_size, SourceImage_download_size(image)),
          installed_size |-> acc.installed_size + installed_size(image)]

RECURSIVE Registry_size_loop(_, _, _)
Registry_size_loop(images, expanded, n) ==
    IF n = 0 THEN [max_download_size |-> 0, installed_size |-> 0]
    ELSE Registry_size_image(Registry_size_loop(images, expanded, n - 1), images[n], expanded)

\* what a call leaves behind: what it was given, what it returned or raised
Call(op, refs, m, dl, inst, loc) ==
    [op |-> op, refs |-> refs, progress |-> m.progress, raised |-> m.raised,
     download_size |-> dl, installed_size |-> inst, location |-> loc,
     expanded |-> m.expanded, added |-> m.added]

NothingStaged == [index_json |-> FALSE, manifests |-> <<>>, oci_layout |-> FALSE]

Finish(m, c, st) ==
    /\ _images' = m.images
    /\ _cached_blobs' = m.cache
    /\ events' = m.events
    /\ call' = c
    /\ staged' = st
    /\ UNCHANGED <<source_vars, flatpak_refs, canon_vars>>

\* no call retrieves more blobs than this: for each entry of the index two documents
\* to load it, and its manifest, its configuration and two layers at most to store it
MaxGets == Len(index) * 6

Static_calculate_size(failAt) ==
    /\ kind = "static"
    /\ \E refs \in {flatpak_refs}, m \in {_expand_refs(Machine(failAt), flatpak_refs)} :
         \E sizes \in {Static_size_loop(m.images.list, m.expanded, Len(m.images.list))} :
            /\ failAt <= m.gets
            /\ IF m.raised # None
               THEN Finish(m, Call("calculate_size", refs, m, 0, 0, NoneStr), NothingStaged)
               ELSE Finish(m, Call("calculate_size", refs, m, sizes.download_size,
                                   sizes.installed_size, NoneStr), NothingStaged)

Registry_calculate_size ==
    /\ kind = "registry"
    /\ \E refs \in {flatpak_refs}, m \in {_expand_refs(Machine(0), flatpak_refs)} :
         \E sizes \in {Registry_size_loop(m.images.list, m.expanded, Len(m.images.list))} :
            IF m.raised # None
            THEN Finish(m, Call("calculate_size", refs, m, 0, 0, NoneStr), NothingStaged)
            ELSE Finish(m, Call("calculate_size", refs, m, 0,
                                sizes.installed_size + sizes.max_download_size, NoneStr),
                        NothingStaged)

(***************************************************************************)
(* download                                                                *)
(***************************************************************************)
\* the loop over the first n layers of an image's manifest
RECURSIVE download_layers(_, _, _)
download_layers(m, layers, n) ==
    IF n = 0 THEN m
    ELSE _download_blob(download_layers(m, layers, n - 1), layers[n].digest, TRUE)

\* index_json["manifests"].append(...), given the config blob was stored too
append_entry(m, image, manifest_len) ==
    IF m.raised # None THEN m
    ELSE [m EXCEPT !.index_json =
             Append(@, [mediaType |-> ManifestType, digest |-> image.digest,
                        size |-> manifest_len])]

\* the config blob, after the manifest blob whose length m.ret is
download_config(m, image) ==
    append_entry(_download_blob(m, image.config_digest, FALSE), image, m.ret)

\* progress.report_download_image(image.ref)
report(m, image, progress) ==
    IF progress THEN emit(m, Ev("progress", "", image.ref, 0)) ELSE m

\* the body of the loop of FlatpakStaticSource.download for one image
download_image(m, image, progress) ==
    IF m.raised # None \/ ~InSeq(image.ref, m.expanded) THEN m
    ELSE download_layers(
             download_config(_download_blob(report(m, image, progress), image.digest, FALSE),
                             image),
             image.layers, Len(image.layers))

\* a bug the code could have: the images are handled last to first
RECURSIVE Mutant_download_loop_reversed(_, _, _, _)
Mutant_download_loop_reversed(m, images, n, progress) ==
    IF n = 0 THEN m
    ELSE Mutant_download_loop_reversed(download_image(m, images[n], progress),
                                       images, n - 1, progress)

\* the loop over the first n images of the catalog
RECURSIVE download_loop(_, _, _, _)
download_loop(m, images, n, progress) ==
    IF n = 0 THEN m
    ELSE download_image(download_loop(m, images, n - 1, progress), images[n], progress)

\* a bug the code could have: the session is closed only if the loop completes
Mutant_close_unless_raised(m) == IF m.raised # None THEN m ELSE session_close(m)

Mutant_download_images_no_cleanup(m, progress) ==
    IF m.raised # None THEN m
    ELSE Mutant_close_unless_raised(download_loop(session_open(m), m.images.list,
                                                  Len(m.images.list), progress))

\* the with block of download: the session and the loop
download_images(m, progress) ==
    IF m.raised # None THEN m
    ELSE session_close(download_loop(session_open(m), m.images.list, Len(m.images.list),
                                     progress))

\* a bug the code could have: the control documents are written in a finally block
Mutant_write_control_documents_always(m) ==
    emit(emit(m, Ev("open_file", "Flatpaks/index.json", <<>>, 0)),
         Ev("open_file", "Flatpaks/oci-layout", <<>>, 0))

\* index.json and oci-layout are written when all images are stored
write_control_documents(m) ==
    IF m.raised # None THEN m
    ELSE emit(emit(m, Ev("open_file", "Flatpaks/index.json", <<>>, 0)),
              Ev("open_file", "Flatpaks/oci-layout", <<>>, 0))

\* FlatpakStaticSource.download of a source that is not local
Static_download_remote(m0, refs, progress) ==
    write_control_documents(
        download_images(_expand_refs([m0 EXCEPT !.progress = progress], refs), progress))

Static_download(progress, failAt) ==
    /\ kind = "static"
    /\ \E refs \in {flatpak_refs} :
         IF _is_local
         THEN /\ failAt = 0
              /\ Finish(Machine(0),
                        Call("download", refs, [Machine(0) EXCEPT !.progress = progress], 0, 0,
                             <<"oci:">> \o removeprefix(_url, "file://")),
                        NothingStaged)
         ELSE \E m \in {Static_download_remote(Machine(failAt), refs, progress)} :
                 /\ failAt <= m.gets
                 /\ IF m.raised # None
                    THEN Finish(m, Call("download", refs, m, 0, 0, NoneStr), NothingStaged)
                    ELSE Finish(m, Call("download", refs, m, 0, 0,
                                        <<"oci:">> \o download_location \o <<"/", "Flatpaks">>),
                                [index_json |-> TRUE, manifests |-> m.index_json,
                                 oci_layout |-> TRUE])

\* FlatpakRegistrySource.download
Registry_download ==
    /\ kind = "registry"
    /\ Finish(Machine(0), Call("download", flatpak_refs, Machine(0), 0, 0, NoneStr), NothingStaged)

(***************************************************************************)
(* The requests                                                            *)
(***************************************************************************)
\* a reference without its architecture, one with a collection id, one of two segments
RefInputs ==
    { <<"app", "/", "org.example.Foo", "/", "/", "stable">>,
      <<"org.fedoraproject.Stable", ":">> \o BarRef,
      <<"app", "/", "org.example.Foo">> }

RECURSIVE SeqsUpTo(_, _)
SeqsUpTo(S, n) ==
    IF n = 0 THEN {<<>>}
    ELSE SeqsUpTo(S, n - 1) \cup
         {Append(s, x) : s \in {t \in SeqsUpTo(S, n - 1) : Len(t) = n - 1}, x \in S}

\* the requests made of a source: lists of different references
RefLists == SeqsOfDistinct(RefInputs, MaxRefs)

\* the requests dependency expansion is checked on: a runtime may be asked for as well
ExpandRefLists == SeqsUpTo(RefInputs \cup {LayeredRef}, MaxRefs)

\* FlatpakModule.set_flatpak_refs: the references later calls are made with
set_flatpak_refs(refs) ==
    /\ refs # flatpak_refs
    /\ flatpak_refs' = refs
    /\ call' = [op |-> "set_flatpak_refs", refs |-> refs, progress |-> FALSE, raised |-> None,
                download_size |-> 0, installed_size |-> 0, location |-> NoneStr,
                expanded |-> <<>>, added |-> <<>>]
    /\ events' = <<>>
    /\ staged' = NothingStaged
    /\ UNCHANGED <<source_vars, _images, _cached_blobs, canon_vars>>

(***************************************************************************)
(* The source: construction, then any calls in any order                   *)
(***************************************************************************)
NoCall ==
    [op |-> "none", refs |-> <<>>, progress |-> FALSE, raised |-> None,
     download_size |-> 0, installed_size |-> 0,
     location |-> NoneStr, expanded |-> <<>>, added |-> <<>>]

CanonIdle ==
    /\ canon_stage = "idle"
    /\ canon_ref = <<>>
    /\ canon_first = _canonicalize_flatpak_ref(<<>>)
    /\ canon_second = _canonicalize_flatpak_ref(<<>>)

Init ==
    /\ kind \in {"static", "registry"}
    /\ _url \in IF kind = "static" THEN {LocalUrl, RemoteUrl} ELSE {RegistryUrl}
    /\ index_status \in IndexStatuses
    /\ index \in IF index_status = 200 THEN Indexes ELSE {<<>>}
    /\ flatpak_refs = <<>>
    /\ _images = [loaded |-> FALSE, list |-> <<>>]
    /\ _cached_blobs = {}
    /\ call = NoCall
    /\ events = <<>>
    /\ staged = NothingStaged
    /\ CanonIdle

Next ==
    \/ \E refs \in RefLists : set_flatpak_refs(refs)
    \/ \E failAt \in 0..MaxGets : Static_calculate_size(failAt)
    \/ \E progress \in BOOLEAN, failAt \in 0..MaxGets : Static_download(progress, failAt)
    \/ Registry_calculate_size
    \/ Registry_download

Spec == Init /\ [][Next]_vars

(***************************************************************************)
(* Dependency expansion alone, on the catalogs of ExpandCatalogs already   *)
(* loaded: _expand_refs on every request.                                  *)
(***************************************************************************)
ExpandInit ==
    /\ kind = "static"
    /\ _url = RemoteUrl
    /\ index_status = 200
    /\ index \in ExpandCatalogs
    /\ flatpak_refs \in ExpandRefLists
    /\ _images = [loaded |-> TRUE, list |-> index]
    /\ _cached_blobs = {}
    /\ call = NoCall
    /\ events = <<>>
    /\ staged = NothingStaged
    /\ CanonIdle

Expand ==
    /\ call.op = "none"
    /\ \E m \in {_expand_refs(Machine(0), flatpak_refs)} :
         Finish(m, Call("_expand_refs", flatpak_refs, m, 0, 0, NoneStr), NothingStaged)

SpecExpand == ExpandInit /\ [][Expand]_vars

(***************************************************************************)
(* The canonicalizer alone, on every string of separators and text up to   *)
(* MaxRefLen tokens: applied once, then applied to the path it returned.   *)
(***************************************************************************)
CanonAlphabet == {"/", ":", "a", "x86_64"}

CanonInit ==
    /\ kind = "static"
    /\ _url = LocalUrl
    /\ index_status = 404
    /\ index = <<>>
    /\ flatpak_refs = <<>>
    /\ _images = [loaded |-> FALSE, list |-> <<>>]
    /\ _cached_blobs = {}
    /\ call = NoCall
    /\ events = <<>>
    /\ staged = NothingStaged
    /\ canon_stage = "input"
    /\ canon_ref \in SeqsUpTo(CanonAlphabet, MaxRefLen)
    /\ canon_first = _canonicalize_flatpak_ref(<<>>)
    /\ canon_second = _canonicalize_flatpak_ref(<<>>)

CanonFirst ==
    /\ canon_stage = "input"
    /\ canon_first' = _canonicalize_flatpak_ref(canon_ref)
    /\ canon_stage' = "once"
    /\ UNCHANGED <<canon_ref, canon_second, source_vars, flatpak_refs, _images, _cached_blobs,
                   call, events, staged>>

CanonSecond ==
    /\ canon_stage = "once"
    /\ canon_first.raised = None
    /\ canon_second' = _canonicalize_flatpak_ref(canon_first.path)
    /\ canon_stage' = "twice"
    /\ UNCHANGED <<canon_ref, canon_first, source_vars, flatpak_refs, _images, _cached_blobs,
                   call, events, staged>>

CanonNext == CanonFirst \/ CanonSecond

SpecCanon == CanonInit /\ [][CanonNext]_vars

(***************************************************************************)
(* Properties of calculate_size                                            *)
(***************************************************************************)
\* the sum of f[1] .. f[n]
RECURSIVE Sum(_, _)
Sum(f, n) == IF n = 0 THEN 0 ELSE f[n] + Sum(f, n - 1)

\* the greatest element of a set of numbers
Greatest(S) == CHOOSE x \in S : \A y \in S : y <= x

\* the positions of the catalog whose image the last call included
IncludedAt == {i \in 1..Len(_images.list) : InSeq(_images.list[i].ref, call.expanded)}

LayerSum(image) == Sum([k \in 1..Len(image.layers) |-> image.layers[k].size], Len(image.layers))

\* the sum over the included images of what size gives for each
SumIncluded(size(_)) ==
    Sum([i \in 1..Len(_images.list) |-> IF i \in IncludedAt THEN size(_images.list[i]) ELSE 0],
        Len(_images.list))

InstalledLabel(image) == image.installed_size_label

Sized == call.op = "calculate_size" /\ call.raised = None

\* C1: for a static source with a remote base URL, the download size calculate_size
\* returns is the sum of the manifest layer sizes of the catalog images whose ref is
\* in the expanded set; the download-size label does not contribute.
C1_RemoteDownloadSizeIsLayerSum ==
    (kind = "static" /\ _url = RemoteUrl /\ Sized) =>
        call.download_size = SumIncluded(LayerSum)

\* a remote static source sized two images whose labels claim other sizes
C1_Witness ==
    /\ kind = "static" /\ _url = RemoteUrl /\ Sized
    /\ Cardinality(IncludedAt) = 2
    /\ \A i \in IncludedAt : _images.list[i].download_size_label # LayerSum(_images.list[i])
    /\ call.download_size > 0

\* C2: for a static source with a local base URL, calculate_size returns download
\* size 0, and as installed size the sum of the installed sizes of the catalog images
\* whose ref is in the expanded set.
C2_LocalDownloadSizeIsZero ==
    (kind = "static" /\ _url = LocalUrl /\ Sized) =>
        /\ call.download_size = 0
        /\ call.installed_size = SumIncluded(InstalledLabel)

\* a local static source sized two images with layers
C2_Witness ==
    /\ kind = "static" /\ _url = LocalUrl /\ Sized
    /\ Cardinality(IncludedAt) = 2
    /\ \A i \in IncludedAt : LayerSum(_images.list[i]) > 0
    /\ call.installed_size > 0

\* C3: for a registry source, calculate_size returns 0 as download size, and as
\* installed size the greatest download size of an included image (0 if there is
\* none) plus the sum of the installed sizes of the included images.
C3_RegistrySizeIsMaxPlusSum ==
    (kind = "registry" /\ Sized) =>
        /\ call.download_size = 0
        /\ call.installed_size =
              Greatest({_images.list[i].download_size_label : i \in IncludedAt} \cup {0})
              + SumIncluded(InstalledLabel)

\* a registry source sized two images
C3_Witness ==
    /\ kind = "registry" /\ Sized
    /\ Cardinality(IncludedAt) = 2
    /\ call.installed_size > 0

(***************************************************************************)
(* Properties of _expand_refs                                              *)
(***************************************************************************)
Expanded == call.op = "_expand_refs" /\ call.raised = None

\* the canonicalized input references: the result of the first loop
CanonicalInputs == SubSeq(call.expanded, 1, Len(call.refs))

\* the catalog image that added the k-th added reference
Adder(k) == _images.list[call.added[k].by]

\* C4 as claimed: only images whose ref is a canonicalized input reference add a
\* runtime reference; an image whose ref was added during expansion adds none.
C4_Claimed_SingleLevel ==
    Expanded => \A k \in 1..Len(call.added) : InSeq(Adder(k).ref, CanonicalInputs)

\* C4: expansion is one pass over the catalog in catalog order: an image adds a
\* runtime reference only if its ref is a canonicalized input or was added by an
\* image earlier in the catalog, and an image whose ref was added by an image at
\* its own or a later position adds nothing.
C4_SinglePassInCatalogOrder ==
    Expanded =>
        \A k \in 1..Len(call.added) :
            /\ \/ InSeq(Adder(k).ref, CanonicalInputs)
               \/ \E j \in 1..Len(call.added) : call.added[j].ref = Adder(k).ref
            /\ \A j \in 1..Len(call.added) :
                  call.added[j].ref = Adder(k).ref => call.added[j].by < call.added[k].by

\* an image that declares a runtime was added as a dependency by a later image
\* of the catalog, and its own runtime was not followed
C4_Witness ==
    /\ Expanded
    /\ \E k \in 1..Len(call.added), i \in 1..Len(_images.list) :
          /\ call.added[k].ref = _images.list[i].ref
          /\ i < call.added[k].by
          /\ _images.list[i] = LayeredImage
    /\ ~InSeq(PlatformRef, call.expanded)

\* the last call's input references all canonicalize
InputsParse == canonicalize_all(call.refs).raised = None

\* the positions of the catalog whose image is asked for and whose metadata is c
AskedWith(c) ==
    {i \in 1..Len(_images.list) :
        /\ _images.list[i] = BarImage(c)
        /\ InSeq(BarRef, canonicalize_all(call.refs).result)}

\* C5 as claimed: for an included image whose metadata label is absent, unparsable
\* or without the Application section, _expand_refs does not raise and adds no
\* runtime reference for that image.
C5_Claimed_MetadataNeverFails ==
    (call.op = "_expand_refs" /\ InputsParse) =>
        \A c \in {"absent", "unparsable", "empty"} : \A i \in AskedWith(c) :
            /\ call.raised = None
            /\ \A k \in 1..Len(call.added) : call.added[k].by # i

\* whether a reference path is canonical: 4 segments, the architecture not empty
IsCanonical(path) ==
    LET parts == split(path, "/")
    IN Len(parts) = 4 /\ parts[3] # <<>>

\* C6 as claimed: every reference of the result is canonical.
C6_Claimed_AllCanonical ==
    Expanded => \A k \in 1..Len(call.expanded) : IsCanonical(call.expanded[k])

\* the value of Runtime in the Application section of an image's metadata
DeclaredRuntime(image) == cp_get(read_string(image.metadata.doc), "Application", "Runtime").value

\* C6: every canonicalized input reference of the result is canonical; a runtime
\* reference added from an image's metadata is "runtime/" followed by the declared
\* value as it stands, whether that makes a canonical reference or not.
C6_InputsCanonicalRuntimesVerbatim ==
    Expanded =>
        /\ Len(call.expanded) = Len(call.refs) + Len(call.added)
        /\ \A k \in 1..Len(call.refs) : IsCanonical(call.expanded[k])
        /\ \A k \in 1..Len(call.added) :
              /\ call.expanded[Len(call.refs) + k] = call.added[k].ref
              /\ call.added[k].ref = <<"runtime", "/">> \o DeclaredRuntime(Adder(k))

\* an input without architecture was made canonical, and a runtime declared
\* without architecture and branch was added as it stands
C6_Witness ==
    /\ Expanded
    /\ \E k \in 1..Len(call.refs) : ~IsCanonical(call.refs[k])
    /\ \E k \in 1..Len(call.added) : ~IsCanonical(call.added[k].ref)

(***************************************************************************)
(* Properties of _canonicalize_flatpak_ref                                 *)
(***************************************************************************)
\* C7 as claimed: for every reference that canonicalizes, canonicalizing the path
\* returned yields that path again.
C7_Claimed_Idempotent ==
    canon_stage = "twice" =>
        canon_second.raised = None /\ canon_second.path = canon_first.path

\* C7: for every reference that canonicalizes to a path without ":", canonicalizing
\* the path returned yields that path again.
C7_IdempotentWithoutColon ==
    (canon_stage = "twice" /\ ~HasSep(canon_first.path, ":")) =>
        canon_second.raised = None /\ canon_second.path = canon_first.path

\* a reference with a collection and without architecture was canonicalized twice
C7_Witness ==
    /\ canon_stage = "twice"
    /\ ~HasSep(canon_first.path, ":")
    /\ canon_first.collection # NoneStr
    /\ canon_first.path # canon_ref
    /\ InSeq("x86_64", canon_first.path) /\ ~InSeq("x86_64", canon_ref)

(***************************************************************************)
(* Properties of download and of loading the catalog                       *)
(***************************************************************************)
\* the manifest entries of the origin's index document that the last call
\* included, in the order of the document
Matching ==
    SelectSeq(index, LAMBDA e : e.mediaType = ManifestType /\ InSeq(e.ref, call.expanded))

\* the progress reports of the last call, in the order they were made
Reports == SelectSeq(events, LAMBDA e : e.ev = "progress")

\* C8: download from a remote static source handles the matching images in the order
\* of the manifest entries of the origin's index document: the progress reports are
\* made in that order, and the index.json staged lists one manifest entry for each
\* matching image, in that order.
C8_DownloadInCatalogOrder ==
    (kind = "static" /\ _url = RemoteUrl /\ call.op = "download") =>
        /\ Len(Reports) <= Len(Matching)
        /\ \A k \in 1..Len(Reports) : Reports[k].ref = Matching[k].ref
        /\ call.raised = None =>
              /\ call.progress => Len(Reports) = Len(Matching)
              /\ staged.index_json
              /\ Len(staged.manifests) = Len(Matching)
              /\ \A k \in 1..Len(Matching) : staged.manifests[k].digest = Matching[k].digest

\* two images were downloaded, with progress reported
C8_Witness ==
    /\ kind = "static" /\ _url = RemoteUrl /\ call.op = "download" /\ call.raised = None
    /\ call.progress
    /\ Len(Reports) = 2
    /\ Len(staged.manifests) = 2
    /\ staged.manifests[1].digest # staged.manifests[2].digest

\* C9: download from a local static source returns "oci:" and the local base path
\* and changes nothing: no retrieval, no progress report, nothing added to the blob
\* cache or the catalog, nothing written, whatever the references and the state.
C9_LocalDownloadChangesNothing ==
    [][(call'.op = "download" /\ kind = "static" /\ _url = LocalUrl) =>
          /\ call'.raised = None
          /\ call'.location = <<"oci:", "/run/install/repo/Flatpaks">>
          /\ events' = <<>>
          /\ _cached_blobs' = _cached_blobs
          /\ _images' = _images
          /\ staged' = NothingStaged]_vars

\* a local download was asked for a reference that cannot be parsed, by a source
\* that had loaded its catalog and cached blobs before
C9_Witness ==
    /\ kind = "static" /\ _url = LocalUrl /\ call.op = "download"
    /\ \E k \in 1..Len(call.refs) : _canonicalize_flatpak_ref(call.refs[k]).raised # None
    /\ _images.loaded
    /\ _cached_blobs # {}

\* the retrievals of index.json the last call made
IndexGets == SelectSeq(events, LAMBDA e : e.ev = "get" /\ e.arg = "index.json")

\* C10: when a static source loads its catalog, the answer 404 for index.json raises
\* NoSourceError, and any other answer that is an error raises the transport's
\* HTTPError and never NoSourceError.
C10_NoSourceOnlyOn404 ==
    (kind = "static" /\ call.op \in {"calculate_size", "download"}) =>
        /\ \A k \in 1..Len(IndexGets) :
              /\ IndexGets[k].status = 404 => call.raised = "NoSourceError"
              /\ (IndexGets[k].status >= 400 /\ IndexGets[k].status # 404)
                    => call.raised = "HTTPError"
        /\ call.raised = "NoSourceError" =>
              \E k \in 1..Len(IndexGets) : IndexGets[k].status = 404

\* a static source was answered 404 for its index
C10_Witness ==
    /\ kind = "static" /\ call.op = "calculate_size"
    /\ Len(IndexGets) = 1 /\ IndexGets[1].status = 404
    /\ call.raised = "NoSourceError"

(***************************************************************************)
(* Properties of the blob cache, the sessions and the control documents    *)
(***************************************************************************)
\* the call of a step retrieved the blob of a digest with _get_blob
Fetched(evs, digest) == \E k \in 1..Len(evs) : evs[k].ev = "get" /\ evs[k].arg = digest

\* C11: once a fetch of a digest has succeeded (the blob is stored in _cached_blobs),
\* no later call of the same source retrieves that digest again, whatever the
\* blob's content.
C11_Claimed_OneRetrievalPerDigest ==
    [][\A c \in _cached_blobs : ~Fetched(events', c.digest)]_vars

\* how many of the first k events of the last call are ev
CountEv(ev, k) == Cardinality({i \in 1..k : events[i].ev = ev})

\* the sessions open after the first k events of the last call
OpenSessions(k) == CountEv("session_open", k) - CountEv("session_close", k)

\* C12: every retrieval (index, blob fetch, blob stream, registry query) is made
\* while a session is open, sessions are not nested, and every session a call opened
\* is closed when the call has returned or raised.
C12_RetrievalsInsideClosedSessions ==
    /\ \A k \in 1..Len(events) :
          /\ OpenSessions(k) \in {0, 1}
          /\ events[k].ev \in {"get", "stream"} => OpenSessions(k) = 1
    /\ OpenSessions(Len(events)) = 0

\* a download loaded the catalog in one session and failed while streaming a layer
\* in a second one
C12_Witness ==
    /\ call.op = "download" /\ call.raised = "HTTPError"
    /\ CountEv("session_open", Len(events)) = 2
    /\ events[Len(events) - 1].ev = "stream"
    /\ events[Len(events) - 1].status = BlobFailStatus
    /\ events[Len(events)].ev = "session_close"

\* the positions of the last call's events at which a control document was opened
\* for writing
ControlWrites ==
    {k \in 1..Len(events) :
        /\ events[k].ev = "open_file"
        /\ events[k].arg \in {"Flatpaks/index.json", "Flatpaks/oci-layout"}}

\* the last call opened the blob file of a digest for writing before its k-th event
StoredBefore(digest, k) ==
    \E j \in 1..(k - 1) : events[j].ev = "open_file" /\ events[j].arg = digest

\* the last call made a retrieval that the origin answered with an error
RetrievalFailed ==
    \E k \in 1..Len(events) : events[k].ev \in {"get", "stream"} /\ events[k].status >= 400

\* C13: in a download from a remote static source the control documents
\* Flatpaks/index.json and Flatpaks/oci-layout are written only after the manifest,
\* the configuration and all layers of every matching image were stored and every
\* retrieval was made; if a retrieval fails, download raises and writes neither.
C13_ControlDocumentsWrittenLast ==
    (kind = "static" /\ _url = RemoteUrl /\ call.op = "download") =>
        /\ \A k \in ControlWrites :
              /\ call.raised = None
              /\ \A j \in 1..Len(events) : events[j].ev \in {"get", "stream"} => j < k
              /\ \A i \in 1..Len(Matching) :
                    /\ StoredBefore(Matching[i].digest, k)
                    /\ StoredBefore(Matching[i].config_digest, k)
                    /\ \A l \in 1..Len(Matching[i].layers) :
                          StoredBefore(Matching[i].layers[l].digest, k)
        /\ RetrievalFailed =>
              /\ call.raised \in {"HTTPError", "NoSourceError"}
              /\ ControlWrites = {}
              /\ staged = NothingStaged
        /\ call.raised = None => Cardinality(ControlWrites) = 2

\* a download stored the blobs of one image and failed at a layer of the next
C13_Witness ==
    /\ kind = "static" /\ _url = RemoteUrl /\ call.op = "download"
    /\ Len(Matching) = 2
    /\ StoredBefore(Matching[1].layers[1].digest, Len(events))
    /\ \E k \in 1..Len(events) :
          /\ events[k].ev = "stream" /\ events[k].status >= 400
          /\ events[k].arg = Matching[2].layers[1].digest
    /\ call.raised = "HTTPError"
    /\ ControlWrites = {}

====
